---- MODULE Spec2Model ----
(***************************************************************************)
(* A model of three parts of the repository:                               *)
(*   - the export cache of cvat/apps/datumaro/task.py (export_project and  *)
(*     the deferred clear_export_cache job),                               *)
(*   - the MS COCO converters of datumaro/components/converters/ms_coco.py,*)
(*   - the CVAT XML parser of utils/parser.py.                             *)
(* Each part has its own specification; the variables of the other parts   *)
(* stay at their initial value.                                            *)
(***************************************************************************)
EXTENDS Bags, FiniteSets, Integers, Sequences, TLC

VARIABLES
    now,            \* the wall clock, in hours since the model starts
    updated_date,   \* db_task.updated_date of the one task
    fs,             \* the export cache directory: archive path -> file
    req,            \* one export_project call per request worker
    jobs,           \* cleanup jobs pending in the rq scheduler (a bag)
    served,         \* the archive the last request returned, while undisturbed
    log,            \* what the last operation did (the slogger record)
    ds,             \* converter input: the task kind, the categories, the items
    cv,             \* a task converter: its position in convert() and its data
    doc,            \* parser input: the XML document
    px              \* a CVAT_XML object: its position in parse_xml and its fields

cacheVars == <<now, updated_date, fs, req, jobs, served, log>>

cocoVars == <<ds, cv>>

xmlVars == <<doc, px>>

vars == <<cacheVars, cocoVars, xmlVars>>

\* What the actions of one part leave alone.
notCache == <<cocoVars, xmlVars>>
notCoco == <<cacheVars, xmlVars>>
notXml == <<cacheVars, cocoVars>>

(***************************************************************************)
(* Export cache                                                            *)
(***************************************************************************)

\* Bounds of the model.
MaxTime == 10
MaxJobs == 2

\* CACHE_TTL = DEFAULT_CACHE_TTL = timedelta(hours=10)
CACHE_TTL == 10

DEFAULT_FORMAT == "datumaro_project"

\* The values a caller passes as format for the one (task, format) key that is
\* modelled; "" stands for None / not given.
Formats == {"", "datumaro_project"}

\* The rq workers that run export_project.
Workers == {"w1", "w2"}

\* format defaults to DEFAULT_FORMAT; archive_path = <cache_dir>/<format>.zip
ArchivePath(format) ==
    LET f == IF format = "" THEN DEFAULT_FORMAT ELSE format
    IN  f \o ".zip"

Paths == {ArchivePath(f) : f \in Formats}

NoFile == [complete |-> FALSE, mtime |-> -1, ctime |-> -1]

\* osp.exists(path)
Exists(path) == fs[path] # NoFile

\* osp.getctime(path), for a path that exists
Getctime(path) == fs[path].ctime

\* osp.getmtime(path), for a path that exists
Getmtime(path) == fs[path].mtime

NotServed == [path |-> "", mtime |-> -1]

Idle == [pc |-> "idle", path |-> "", task_time |-> -1, archive_ctime |-> -1,
         built |-> FALSE, enqueued |-> <<>>, after |-> NotServed, calm |-> FALSE]

\* A slip in the freshness test: the archive must be strictly newer.
IsFreshStrict(path, task_time) ==
    Exists(path) /\ task_time < Getmtime(path)

\* A slip in the freshness test: the comparison the wrong way round.
IsFreshReversed(path, task_time) ==
    Exists(path) /\ task_time >= Getmtime(path)

\* The freshness test of export_project, lines 150-151, as the code writes it:
\* osp.exists(archive_path) and task_time <= osp.getmtime(archive_path)
IsFresh(path, task_time) ==
    Exists(path) /\ task_time <= Getmtime(path)

CacheStart ==
    /\ now = 0
    /\ updated_date = 0
    /\ fs = [p \in Paths |-> NoFile]
    /\ req = [w \in Workers |-> Idle]
    /\ jobs = EmptyBag
    /\ served = NotServed
    /\ log = [op |-> "init"]

\* Requests that may still enqueue a cleanup job.
InFlight == {w \in Workers : req[w].pc \in {"export", "zip", "publish", "ctime", "enqueue"}}

\* Bookkeeping for the idempotence property: the requests in `ws` ran while
\* the task was saved, the cache was cleaned or another request published.
Disturb(ws) == [w \in Workers |-> IF w \in ws THEN [req[w] EXCEPT !.calm = FALSE]
                                               ELSE req[w]]

\* The clock is observed in steps of half the cache's time to live.
ClockStep == CACHE_TTL \div 2

\* The clock advances.
Tick ==
    /\ now < MaxTime
    /\ now' = now + ClockStep
    /\ log' = [op |-> "tick"]
    /\ UNCHANGED <<updated_date, fs, req, jobs, served, notCache>>

\* The task is saved: its updated_date becomes the current time.
TaskUpdate ==
    /\ updated_date < now
    /\ updated_date' = now
    /\ served' = NotServed
    /\ req' = Disturb(Workers)
    /\ log' = [op |-> "update"]
    /\ UNCHANGED <<now, fs, jobs, notCache>>

\* export_project, lines 140-151: load the task, compute the archive path and
\* decide whether the cached archive is served or rebuilt.
ExportProjectCheck(w, format) ==
    /\ req[w].pc = "idle"
    /\ BagCardinality(jobs) + Cardinality(InFlight) < MaxJobs
    /\ LET path == ArchivePath(format)
           task_time == updated_date
       IN  /\ req' = [req EXCEPT ![w] =
                  [pc |-> IF IsFresh(path, task_time) THEN "return" ELSE "export",
                   path |-> path, task_time |-> task_time, archive_ctime |-> -1,
                   built |-> FALSE, enqueued |-> <<>>, after |-> served,
                   calm |-> TRUE]]
           /\ log' = [op |-> "check", w |-> w, path |-> path, format |-> format]
    /\ UNCHANGED <<now, updated_date, fs, jobs, served, notCache>>

\* The except clause of export_project: log the exception and re-raise.
Raise(w, stage) ==
    /\ req' = [req EXCEPT ![w] = Idle]
    /\ log' = [op |-> "raise", w |-> w, stage |-> stage, path |-> req[w].path,
               built |-> req[w].built, enqueued |-> req[w].enqueued]

\* lines 152-157: the codec writes the dataset into the temporary directory.
ExportProjectExport(w) ==
    /\ req[w].pc = "export"
    /\ req' = [req EXCEPT ![w].pc = "zip"]
    /\ log' = [op |-> "export", w |-> w]
    /\ UNCHANGED <<now, updated_date, fs, jobs, served, notCache>>

\* project.export raises: the temporary directory is removed, nothing is
\* published.
ExportProjectExportFails(w) ==
    /\ req[w].pc = "export"
    /\ Raise(w, "export")
    /\ UNCHANGED <<now, updated_date, fs, jobs, served, notCache>>

\* A packaging that writes the archive in place: the unfinished file is at
\* the final path while it is written.
MakeZipArchiveWriteInPlace(w) ==
    /\ req[w].pc = "zip"
    /\ fs' = [fs EXCEPT ![req[w].path] =
                 [complete |-> FALSE, mtime |-> now, ctime |-> now]]
    /\ req' = [req EXCEPT ![w].pc = "publish"]
    /\ log' = [op |-> "zip", w |-> w]
    /\ UNCHANGED <<now, updated_date, jobs, served, notCache>>

\* make_zip_archive, first half: the archive is written to a temporary
\* location beside the cache.
MakeZipArchiveWrite(w) ==
    /\ req[w].pc = "zip"
    /\ req' = [req EXCEPT ![w].pc = "publish"]
    /\ log' = [op |-> "zip", w |-> w]
    /\ UNCHANGED <<now, updated_date, fs, jobs, served, notCache>>

\* make_zip_archive fails while writing: the temporary archive is dropped.
MakeZipArchiveFails(w) ==
    /\ req[w].pc \in {"zip", "publish"}
    /\ Raise(w, "zip")
    /\ UNCHANGED <<now, updated_date, fs, jobs, served, notCache>>

\* make_zip_archive, second half: the complete archive is published under the
\* final path; the file at that path is created now.
MakeZipArchivePublish(w) ==
    /\ req[w].pc = "publish"
    /\ fs' = [fs EXCEPT ![req[w].path] =
                 [complete |-> TRUE, mtime |-> now, ctime |-> now]]
    /\ req' = [Disturb(Workers \ {w}) EXCEPT ![w].pc = "ctime", ![w].built = TRUE]
    /\ served' = NotServed
    /\ log' = [op |-> "publish", w |-> w, path |-> req[w].path,
               before |-> fs[req[w].path]]
    /\ UNCHANGED <<now, updated_date, jobs, notCache>>

\* line 162: archive_ctime = osp.getctime(archive_path)
ExportProjectGetCtime(w) ==
    /\ req[w].pc = "ctime"
    /\ Exists(req[w].path)
    /\ req' = [req EXCEPT ![w].pc = "enqueue",
                          ![w].archive_ctime = Getctime(req[w].path)]
    /\ log' = [op |-> "getctime", w |-> w, path |-> req[w].path]
    /\ UNCHANGED <<now, updated_date, fs, jobs, served, notCache>>

\* line 162 when the archive is gone already: osp.getctime raises.
ExportProjectGetCtimeFails(w) ==
    /\ req[w].pc = "ctime"
    /\ ~Exists(req[w].path)
    /\ Raise(w, "getctime")
    /\ UNCHANGED <<now, updated_date, fs, jobs, served, notCache>>

\* A cleanup job that is due at once.
CleaningJobNoDelay(file_path, file_ctime) ==
    [file_path |-> file_path, file_ctime |-> file_ctime, due |-> now]

\* The payload of a cleanup job and the time it is due.
CleaningJob(file_path, file_ctime) ==
    [file_path |-> file_path, file_ctime |-> file_ctime, due |-> now + CACHE_TTL]

\* lines 163-174: scheduler.enqueue_in(time_delta=CACHE_TTL, clear_export_cache, ...)
ExportProjectEnqueue(w) ==
    /\ req[w].pc = "enqueue"
    /\ jobs' = jobs (+) SetToBag({CleaningJob(req[w].path, req[w].archive_ctime)})
    /\ req' = [req EXCEPT ![w].pc = "return",
                          ![w].enqueued = Append(req[w].enqueued,
                              CleaningJob(req[w].path, req[w].archive_ctime))]
    /\ log' = [op |-> "enqueue", w |-> w, path |-> req[w].path,
               job |-> CleaningJob(req[w].path, req[w].archive_ctime)]
    /\ UNCHANGED <<now, updated_date, fs, served, notCache>>

\* The scheduler cannot be reached: enqueue_in raises.
ExportProjectEnqueueFails(w) ==
    /\ req[w].pc = "enqueue"
    /\ Raise(w, "enqueue")
    /\ UNCHANGED <<now, updated_date, fs, jobs, served, notCache>>

\* line 176: return archive_path
ExportProjectReturn(w) ==
    /\ req[w].pc = "return"
    /\ req' = [req EXCEPT ![w] = Idle]
    /\ served' = IF req[w].calm
                 THEN [path |-> req[w].path, mtime |-> Getmtime(req[w].path)]
                 ELSE NotServed
    /\ log' = [op |-> "return", w |-> w, path |-> req[w].path,
               built |-> req[w].built, enqueued |-> req[w].enqueued,
               after |-> req[w].after,
               calm |-> req[w].calm, file |-> fs[req[w].path]]
    /\ UNCHANGED <<now, updated_date, fs, jobs, notCache>>

\* A cleanup that forgets to compare the creation time.
ClearOutcomeAnyCtime(file_path, file_ctime) ==
    IF ~Exists(file_path) THEN "skip" ELSE "remove"

\* What clear_export_cache does, line 183: the test
\* osp.exists(file_path) and osp.getctime(file_path) == file_ctime
\* is evaluated left to right, so getctime never meets a missing file.
ClearOutcome(file_path, file_ctime) ==
    IF ~Exists(file_path) THEN "skip"
    ELSE IF Getctime(file_path) = file_ctime THEN "remove"
    ELSE "skip"

\* clear_export_cache(task_id, file_path, file_ctime), run by the scheduler
\* once the job is due.
ClearExportCache(job) ==
    /\ BagIn(job, jobs)
    /\ job.due <= now
    /\ jobs' = jobs (-) SetToBag({job})
    /\ fs' = IF ClearOutcome(job.file_path, job.file_ctime) = "remove"
             THEN [fs EXCEPT ![job.file_path] = NoFile]
             ELSE fs
    /\ served' = NotServed
    /\ req' = Disturb(Workers)
    /\ log' = [op |-> "clear", job |-> job, found |-> fs[job.file_path],
               outcome |-> ClearOutcome(job.file_path, job.file_ctime)]
    /\ UNCHANGED <<now, updated_date, notCache>>

CacheNext ==
    \/ Tick
    \/ TaskUpdate
    \/ \E w \in Workers, format \in Formats : ExportProjectCheck(w, format)
    \/ \E w \in Workers : ExportProjectExport(w)
    \/ \E w \in Workers : ExportProjectExportFails(w)
    \/ \E w \in Workers : MakeZipArchiveWrite(w)
    \/ \E w \in Workers : MakeZipArchiveFails(w)
    \/ \E w \in Workers : MakeZipArchivePublish(w)
    \/ \E w \in Workers : ExportProjectGetCtime(w)
    \/ \E w \in Workers : ExportProjectGetCtimeFails(w)
    \/ \E w \in Workers : ExportProjectEnqueue(w)
    \/ \E w \in Workers : ExportProjectEnqueueFails(w)
    \/ \E w \in Workers : ExportProjectReturn(w)
    \/ \E job \in BagToSet(jobs) : ClearExportCache(job)

\* The converter before convert() runs, with nothing to convert.
CocoIdle ==
    /\ ds = [conv |-> "none", labels |-> <<>>, items |-> <<>>]
    /\ cv = [pc |-> "idle"]

\* The parser before a document is given to it.
XmlIdle ==
    /\ doc = [version |-> <<>>, tasks |-> <<>>, images |-> <<>>]
    /\ px = [pc |-> "idle"]

CacheInit == CacheStart /\ CocoIdle /\ XmlIdle

SpecCache == CacheInit /\ [][CacheNext]_vars

(***************************************************************************)
(* Properties of the export cache                                          *)
(***************************************************************************)

\* The archive a cleanup job found at its path, and whether it is gone now.
ClearDeleted ==
    log.found # NoFile /\ fs[log.job.file_path] = NoFile

\* C1: a cleanup job that fires with captured creation time T deletes the
\* archive at its path if and only if the archive exists at that moment and
\* its creation time equals T; otherwise (archive replaced by a newer export,
\* or gone) it leaves the path as it found it and raises nothing.
ClearDeletesOnlyItsOwnArchive ==
    log.op = "clear" =>
        /\ log.outcome \in {"remove", "skip"}
        /\ ClearDeleted <=>
               (log.found # NoFile /\ log.found.ctime = log.job.file_ctime)
        /\ ~ClearDeleted => fs[log.job.file_path] = log.found

\* C1, witness: the cleanup race. A job fired whose captured creation time
\* differs from the creation time of the archive now at the path (a newer
\* export replaced it), and the archive is still there.
ClearSkippedNewerArchive ==
    /\ log.op = "clear"
    /\ log.found # NoFile
    /\ log.found.ctime # log.job.file_ctime
    /\ fs[log.job.file_path] = log.found

\* C2: when a request returns and the request before it on the same key
\* returned too, with no task update, no cleanup firing and no publication by
\* another request from the start of the first to the end of the second, the
\* second returns the same path, has not rebuilt, and the archive's
\* modification time is what it was when the first returned.
ExportIsIdempotent ==
    (log.op = "return" /\ log.calm /\ log.after # NotServed) =>
        /\ log.path = log.after.path
        /\ ~log.built
        /\ log.file # NoFile
        /\ log.file.mtime = log.after.mtime

\* C2, witness: a second request in succession returned the archive the first
\* one returned.
SecondRequestReturned ==
    /\ log.op = "return" /\ log.calm /\ log.after # NotServed
    /\ ~log.built
    /\ log.file.mtime = log.after.mtime

\* C3: a request rebuilds exactly when the archive is absent or its
\* modification time is strictly earlier than the task's timestamp; an archive
\* as old as the task's timestamp is served.
RebuildsExactlyWhenStale ==
    log.op = "check" =>
        /\ req[log.w].pc \in {"export", "return"}
        /\ req[log.w].pc = "export" <=>
               (~Exists(log.path) \/ fs[log.path].mtime < updated_date)

\* C3, witness: the task was saved after the build, and the next request
\* rebuilds.
UpdateCausedRebuild ==
    /\ log.op = "check"
    /\ Exists(log.path)
    /\ fs[log.path].mtime < updated_date
    /\ req[log.w].pc = "export"

\* C4: during and after any build, also one that fails, the final path holds
\* no archive, the previous complete archive or the new complete archive.
AtomicPublish ==
    \A p \in Paths : Exists(p) => fs[p].complete

\* C4, witness: a build failed while packaging and the previous complete
\* archive is still at the final path.
FailedBuildLeftOldArchive ==
    /\ log.op = "raise" /\ log.stage = "zip"
    /\ Exists(log.path) /\ fs[log.path].complete

\* The lifecycle state of a key, as the claim defines it.
CacheState(p) ==
    IF \E w \in Workers : req[w].path = p /\ req[w].pc \in {"export", "zip", "publish"}
    THEN "Building"
    ELSE IF ~Exists(p) THEN "Missing"
    ELSE IF fs[p].mtime >= updated_date THEN "Fresh"
    ELSE "Stale"

SpecTransitions ==
    {<<"Missing", "Building">>, <<"Building", "Fresh">>,
     <<"Fresh", "Stale">>, <<"Stale", "Missing">>}

CodeTransitions ==
    SpecTransitions \cup
    {<<"Stale", "Building">>, <<"Fresh", "Missing">>,
     <<"Building", "Missing">>, <<"Building", "Stale">>}

\* C10 as stated: the state of a key changes only along Missing -> Building,
\* Building -> Fresh, Fresh -> Stale and Stale -> Missing.
LifecycleAsStated ==
    [][\A p \in Paths : CacheState(p)' # CacheState(p) =>
           <<CacheState(p), CacheState(p)'>> \in SpecTransitions]_vars

\* C10 amended: the state of a key changes only along the four transitions
\* of the claim and Stale -> Building (a request on a stale archive rebuilds),
\* Fresh -> Missing (the cleanup job deletes a fresh archive), Building ->
\* Missing and Building -> Stale (the build fails).
LifecycleOfTheCode ==
    [][\A p \in Paths : CacheState(p)' # CacheState(p) =>
           <<CacheState(p), CacheState(p)'>> \in CodeTransitions]_vars

\* C10, witness: the cleanup job deleted an archive that was fresh.
CleanupDeletedFreshArchive ==
    /\ log.op = "clear" /\ log.outcome = "remove"
    /\ log.found.mtime >= updated_date
    /\ CacheState(log.job.file_path) = "Missing"

\* The jobs a request has enqueued when it leaves export_project are one job
\* for its path, due CACHE_TTL after it was enqueued, and pending still or
\* fired already.
EnqueuedOneJob(path, enqueued) ==
    /\ Len(enqueued) = 1
    /\ enqueued[1].file_path = path
    /\ enqueued[1].due <= now + CACHE_TTL

\* What holds of every enqueueing and of every reading of the creation time:
\* the creation time is read from the archive at the path after the request
\* has published, and the job carries the path, that creation time and the
\* delay CACHE_TTL.
EnqueuedAfterPublishing ==
    /\ log.op = "getctime" =>
           /\ req[log.w].built
           /\ req[log.w].archive_ctime = fs[log.path].ctime
    /\ log.op = "enqueue" =>
           /\ req[log.w].built
           /\ BagIn(log.job, jobs)
           /\ req[log.w].enqueued = <<log.job>>
           /\ log.job.file_path = log.path
           /\ log.job.file_ctime = req[log.w].archive_ctime
           /\ log.job.due = now + CACHE_TTL
           /\ CACHE_TTL = 10

\* What holds of every request that returns, and of every request that
\* raises before it publishes.
EnqueuedOnReturn ==
    /\ (log.op = "return" /\ log.built) => EnqueuedOneJob(log.path, log.enqueued)
    /\ (log.op = "return" /\ ~log.built) => log.enqueued = <<>>
    /\ (log.op = "raise" /\ ~log.built) => log.enqueued = <<>>

ReturnedPathExists ==
    log.op = "return" => (log.file # NoFile /\ Exists(log.path))

\* C15: whenever an archive exists at the path of a key and no export for
\* that key is in progress, a pending cleanup job holds a captured creation
\* time equal to the creation time of the archive.
NoOrphanedArchive ==
    \A p \in Paths :
        (Exists(p) /\ ~\E w \in InFlight : req[w].path = p) =>
            \E job \in BagToSet(jobs) :
                job.file_path = p /\ job.file_ctime = Getctime(p)

(***************************************************************************)
(* MS COCO converters                                                      *)
(***************************************************************************)

\* Bounds of the model.
MaxAnns == 3        \* annotations in a subset
MaxId == 2          \* the largest id a source annotation carries
MaxPoints == 3      \* points of a points annotation
MaxLabels == 2      \* labels of a task

\* Python's None, and a value that is present.
None == <<>>
Some(x) == <<x>>

Min(S) == CHOOSE i \in S : \A j \in S : i <= j
Max(S) == CHOOSE i \in S : \A j \in S : i >= j

SeqsUpTo(S, n) == UNION {[1..k -> S] : k \in 0..n}

\* PointsObject.Visibility: the value of each member.
Visibility == [absent |-> 0, hidden |-> 1, visible |-> 2]

\* The annotation objects of datumaro.components.extractor, with the fields
\* the converters read.
BboxObject(id, label, group, is_crowd) ==
    [type |-> "bbox", id |-> id, label |-> label, group |-> group,
     is_crowd |-> is_crowd, x |-> 1, y |-> 2, w |-> 3, h |-> 4]

MaskObject(group, image) ==
    [type |-> "mask", id |-> None, label |-> None, group |-> group,
     is_crowd |-> FALSE, image |-> image]

PolygonObject(group, points) ==
    [type |-> "polygon", id |-> None, label |-> None, group |-> group,
     is_crowd |-> FALSE, points |-> points]

\* The i-th point of every points annotation of the model is (10i, 10i + 1).
PointsObject(id, label, group, visibility) ==
    [type |-> "points", id |-> id, label |-> label, group |-> group,
     is_crowd |-> FALSE,
     points |-> [j \in 1..(2 * Len(visibility)) |->
                    IF j % 2 = 1 THEN 10 * ((j + 1) \div 2)
                                 ELSE 10 * (j \div 2) + 1],
     visibility |-> visibility]

LabelObject(id, label) ==
    [type |-> "label", id |-> id, label |-> label, group |-> None,
     is_crowd |-> FALSE]

CaptionObject(id, caption) ==
    [type |-> "caption", id |-> id, label |-> None, group |-> None,
     is_crowd |-> FALSE, caption |-> caption]

\* A dataset item: its id and its annotations.
DatasetItem(id, annotations) == [id |-> Some(id), annotations |-> annotations]

\* _cast(value, int, default)
Cast(value, default) == IF value = None THEN default ELSE value[1]

\* datumaro.util.find: the first element that satisfies the predicate, or
\* None; pred[i] tells whether the i-th element satisfies it.
Find(iterable, pred) ==
    LET hits == {i \in 1..Len(iterable) : pred[i]}
    IN  IF hits = {} THEN None ELSE Some(iterable[Min(hits)])

\* BboxObject.get_bbox, get_polygon and area
GetBbox(bbox) == <<bbox.x, bbox.y, bbox.w, bbox.h>>

GetPolygon(bbox) ==
    <<bbox.x, bbox.y, bbox.x + bbox.w, bbox.y, bbox.x + bbox.w, bbox.y + bbox.h,
      bbox.x, bbox.y + bbox.h>>

BboxArea(bbox) == bbox.w * bbox.h

\* PointsObject.get_bbox: the box spanned by the extrema of the points.
PointsGetBbox(points) ==
    LET xs == {points[j] : j \in {k \in 1..Len(points) : k % 2 = 1}}
        ys == {points[j] : j \in {k \in 1..Len(points) : k % 2 = 0}}
    IN  [type |-> "bbox", x |-> Min(xs), y |-> Min(ys),
         w |-> Max(xs) - Min(xs), h |-> Max(ys) - Min(ys)]

RECURSIVE Flatten(_)
Flatten(rows) == IF rows = <<>> THEN <<>> ELSE Head(rows) \o Flatten(Tail(rows))

\* mask_utils.area: the number of foreground pixels.
MaskArea(image) ==
    LET bits == Flatten(image) IN Cardinality({j \in 1..Len(bits) : bits[j] = 1})

RECURSIVE RleRuns(_, _, _)
RleRuns(bits, value, run) ==
    IF bits = <<>> THEN <<run>>
    ELSE IF Head(bits) = value THEN RleRuns(Tail(bits), value, run + 1)
    ELSE <<run>> \o RleRuns(Tail(bits), 1 - value, 1)

\* mask_tools.convert_mask_to_rle: row-major run lengths, alternating
\* background and foreground, the first run being background.
ConvertMaskToRle(image) ==
    [counts |-> RleRuns(Flatten(image), 0, 0),
     size |-> <<Len(image), Len(image[1])>>]

\* A segmentation as the 'segmentation' field carries it: a run-length
\* encoding or a list of polygons.
RleSegmentation(rle) ==
    [kind |-> "rle", counts |-> rle.counts, size |-> rle.size, polygons |-> <<>>]

PolygonSegmentation(polygons) ==
    [kind |-> "polygons", counts |-> <<>>, size |-> <<>>, polygons |-> polygons]

\* _TaskConverter._get_ann_id: the id of the annotation, and _min_ann_id
\* after seeing it.
GetAnnId(min_ann_id, annotation) ==
    [id |-> annotation.id,
     min_ann_id |-> IF annotation.id # None /\ annotation.id[1] # 0
                    THEN Max({annotation.id[1], min_ann_id})
                    ELSE min_ann_id]

\* Categories numbered from 0, as the label indices are.
LabelSaveCategoriesFromZero(labels) ==
    IF labels = None THEN <<>>
    ELSE [k \in 1..Len(labels[1]) |->
             [id |-> k - 1, name |-> labels[1][k], supercategory |-> ""]]

\* _InstancesConverter.save_categories and _LabelsConverter.save_categories
LabelSaveCategories(labels) ==
    IF labels = None THEN <<>>
    ELSE [k \in 1..Len(labels[1]) |->
             [id |-> 1 + (k - 1), name |-> labels[1][k], supercategory |-> ""]]

\* _InstancesConverter.save_annotations, lines 132-153: the segmentation, the
\* area and the crowd flag of one box.
InstancesSegmentation(item, ann) ==
    LET is_crowd == ann.is_crowd
        mask == Find(item.annotations,
                     [i \in 1..Len(item.annotations) |->
                         LET x == item.annotations[i]
                         IN  x.group = ann.group /\ x.type = "mask"])
        polygon == Find(item.annotations,
                        [i \in 1..Len(item.annotations) |->
                            LET x == item.annotations[i]
                            IN  x.group = ann.group /\ x.type = "polygon"])
    IN  IF ann.group # None /\ is_crowd /\ mask # None
        THEN [segmentation |-> RleSegmentation(ConvertMaskToRle(mask[1].image)),
              area |-> MaskArea(mask[1].image), is_crowd |-> is_crowd]
        ELSE IF ann.group # None /\ ~is_crowd /\ polygon # None
        THEN [segmentation |-> PolygonSegmentation(<<polygon[1].points>>),
              area |-> BboxArea(ann), is_crowd |-> is_crowd]
        ELSE [segmentation |-> PolygonSegmentation(<<GetPolygon(ann)>>),
              area |-> BboxArea(ann), is_crowd |-> FALSE]

\* _InstancesConverter.save_annotations, lines 155-163: the record of one box.
InstancesAnnotation(item, ann) ==
    LET seg == InstancesSegmentation(item, ann)
    IN  [id |-> ann.id,
         image_id |-> Cast(item.id, 0),
         category_id |-> Cast(ann.label, -1) + 1,
         segmentation |-> seg.segmentation,
         area |-> seg.area,
         bbox |-> GetBbox(ann),
         iscrowd |-> IF seg.is_crowd THEN 1 ELSE 0]

\* _CaptionsConverter.save_annotations: the record of one caption.
CaptionsAnnotation(item, ann) ==
    [id |-> ann.id,
     image_id |-> Cast(item.id, 0),
     category_id |-> 0,
     caption |-> ann.caption]

\* _KeypointsConverter.save_annotations, lines 233-239: the flat keypoints.
KeypointsOf(points, visibility) ==
    [j \in 1..(3 * (Len(points) \div 2)) |->
        LET index == 2 * ((j - 1) \div 3)
        IN  IF j % 3 = 1 THEN points[index + 1]
            ELSE IF j % 3 = 2 THEN points[index + 2]
            ELSE Visibility[visibility[(index \div 2) + 1]]]

\* A count of the labeled points, hidden ones included.
NumLabeled(visibility) ==
    Cardinality({j \in 1..Len(visibility) : visibility[j] # "absent"})

\* lines 241-242: the points that are visible.
NumVisible(visibility) ==
    Cardinality({j \in 1..Len(visibility) : visibility[j] = "visible"})

\* _KeypointsConverter.save_annotations: the record of one points annotation.
KeypointsAnnotation(item, ann) ==
    LET found == Find(item.annotations,
                      [i \in 1..Len(item.annotations) |->
                          LET x == item.annotations[i]
                          IN  /\ x.group = ann.group
                              /\ x.type = "bbox"
                              /\ x.label = ann.label])
        bbox == IF found = None THEN PointsGetBbox(ann.points) ELSE found[1]
    IN  [id |-> ann.id,
         image_id |-> Cast(item.id, 0),
         category_id |-> Cast(ann.label, -1) + 1,
         segmentation |-> GetPolygon(bbox),
         area |-> BboxArea(bbox),
         bbox |-> GetBbox(bbox),
         iscrowd |-> 0,
         keypoints |-> KeypointsOf(ann.points, ann.visibility),
         num_keypoints |-> NumVisible(ann.visibility)]

\* _LabelsConverter.save_annotations: the record of one label; int(None)
\* raises, see SaveAnnotations.
LabelsAnnotation(item, ann) ==
    [id |-> ann.id,
     image_id |-> Cast(item.id, 0),
     category_id |-> Cast(ann.label, -1) + 1]

\* _Converter._TASK_CONVERTER: the annotation type each converter handles.
AnnotationTypeOf(conv) ==
    CASE conv = "instances" -> "bbox"
      [] conv = "captions" -> "caption"
      [] conv = "person_keypoints" -> "points"
      [] conv = "labels" -> "label"

Converters == {"instances", "captions", "person_keypoints", "labels"}

AnnotationOf(conv, item, ann) ==
    CASE conv = "instances" -> InstancesAnnotation(item, ann)
      [] conv = "captions" -> CaptionsAnnotation(item, ann)
      [] conv = "person_keypoints" -> KeypointsAnnotation(item, ann)
      [] conv = "labels" -> LabelsAnnotation(item, ann)

\* save_annotations(item) of the converter `conv`, from the k-th annotation
\* of the item on: annotations of another type are skipped, a record is
\* appended for each of the others.
RECURSIVE SaveAnnotations(_, _, _, _)
SaveAnnotations(conv, item, k, st) ==
    IF k > Len(item.annotations) \/ st.raised THEN st
    ELSE LET ann == item.annotations[k]
         IN  IF ann.type # AnnotationTypeOf(conv)
             THEN SaveAnnotations(conv, item, k + 1, st)
             ELSE IF conv = "labels" /\ ann.label = None
             THEN [st EXCEPT !.raised = TRUE]
             ELSE SaveAnnotations(conv, item, k + 1,
                      [st EXCEPT
                          !.min_ann_id = GetAnnId(st.min_ann_id, ann).min_ann_id,
                          !.annotations = Append(st.annotations,
                                                 AnnotationOf(conv, item, ann))])

\* _TaskConverter.write, lines 91-95: the records without an id take the next
\* ids, counted from next_id.
RECURSIVE WriteIds(_, _)
WriteIds(annotations, next_id) ==
    IF annotations = <<>> THEN <<>>
    ELSE IF Head(annotations).id = None
    THEN <<[Head(annotations) EXCEPT !.id = Some(next_id)]>>
             \o WriteIds(Tail(annotations), next_id + 1)
    ELSE <<Head(annotations)>> \o WriteIds(Tail(annotations), next_id)

\* _TaskConverter.__init__
NewConverter ==
    [pc |-> "categories", i |-> 1, min_ann_id |-> 1, categories |-> <<>>,
     images |-> <<>>, annotations |-> <<>>, written |-> FALSE]

\* convert(), line 339: task_conv.save_categories(subset)
SaveCategories ==
    /\ cv.pc = "categories"
    /\ cv' = [cv EXCEPT
                 !.categories = IF ds.conv \in {"instances", "labels"}
                                THEN LabelSaveCategories(ds.labels)
                                ELSE <<>>,
                 !.pc = IF ds.items = <<>> THEN "write" ELSE "items"]
    /\ UNCHANGED <<ds, notCoco>>

\* convert(), lines 340-348: save_image_info and save_annotations of one item.
SaveItem ==
    /\ cv.pc = "items"
    /\ LET item == ds.items[cv.i]
           st == SaveAnnotations(ds.conv, item, 1,
                     [min_ann_id |-> cv.min_ann_id,
                      annotations |-> cv.annotations, raised |-> FALSE])
       IN  cv' = [cv EXCEPT
                     !.images = Append(cv.images, [id |-> Cast(item.id, 0)]),
                     !.min_ann_id = st.min_ann_id,
                     !.annotations = st.annotations,
                     !.i = cv.i + 1,
                     !.pc = IF st.raised THEN "raised"
                            ELSE IF cv.i = Len(ds.items) THEN "write"
                            ELSE "items"]
    /\ UNCHANGED <<ds, notCoco>>

\* convert(), lines 350-353: write the document unless the converter is empty.
Write ==
    /\ cv.pc = "write"
    /\ cv' = IF cv.annotations = <<>>
             THEN [cv EXCEPT !.pc = "done"]
             ELSE [cv EXCEPT !.pc = "done", !.written = TRUE,
                             !.annotations = WriteIds(cv.annotations, cv.min_ann_id)]
    /\ UNCHANGED <<ds, notCoco>>

CocoNext == SaveCategories \/ SaveItem \/ Write

\* One item holding all the annotations, or two items that split them.
OneItem(anns) == {<<DatasetItem(1, anns)>>}

TwoItems(anns) ==
    {<<DatasetItem(1, SubSeq(anns, 1, k)), DatasetItem(2, SubSeq(anns, k + 1, Len(anns)))>> :
        k \in 0..Len(anns)}

Groups == {None, Some(1), Some(2)}

TwoLabels == Some(<<"cat", "dog">>)

Triangle == <<0, 0, 4, 0, 0, 4>>

MaskImage == <<<<0, 1>>, <<1, 1>>>>

\* The inputs of the instances converter: boxes with and without a group and
\* a crowd flag, masks and polygons with and without a group.
SegUniverse ==
    {BboxObject(None, Some(0), g, c) : g \in Groups, c \in BOOLEAN}
        \cup {MaskObject(g, MaskImage) : g \in Groups}
        \cup {PolygonObject(g, Triangle) : g \in Groups}

InstancesInit ==
    /\ \E anns \in SeqsUpTo(SegUniverse, MaxAnns) :
       \E items \in TwoItems(anns) :
           ds = [conv |-> "instances", labels |-> TwoLabels, items |-> items]
    /\ cv = NewConverter
    /\ CacheStart /\ XmlIdle

SpecInstances == InstancesInit /\ [][CocoNext]_vars

\* The annotations the converter `conv` turns into records, in the order of
\* emission, each with its item.
Sources(conv) ==
    LET of(item) ==
            LET sel == SelectSeq(item.annotations,
                                 LAMBDA a : a.type = AnnotationTypeOf(conv))
            IN  [j \in 1..Len(sel) |-> [item |-> item, ann |-> sel[j]]]
    IN  Flatten([i \in 1..Len(ds.items) |-> of(ds.items[i])])

\* The converter has gone through every item.
Converted == cv.pc \in {"write", "done"}

\* The segmentation and the crowd flag the tie-break crowd-mask, polygon,
\* self-rectangle gives a box.
TieBreak(item, ann) ==
    LET masks == {i \in 1..Len(item.annotations) :
                     /\ item.annotations[i].type = "mask"
                     /\ item.annotations[i].group = ann.group}
        polygons == {i \in 1..Len(item.annotations) :
                        /\ item.annotations[i].type = "polygon"
                        /\ item.annotations[i].group = ann.group}
    IN  IF ann.group # None /\ ann.is_crowd /\ masks # {}
        THEN [rule |-> 1, iscrowd |-> 1,
              segmentation |-> RleSegmentation(
                  ConvertMaskToRle(item.annotations[Min(masks)].image))]
        ELSE IF ann.group # None /\ polygons # {}
        THEN [rule |-> 2, iscrowd |-> 0,
              segmentation |-> PolygonSegmentation(
                  <<item.annotations[Min(polygons)].points>>)]
        ELSE [rule |-> 3, iscrowd |-> 0,
              segmentation |-> PolygonSegmentation(<<GetPolygon(ann)>>)]

\* C5: every box is given the segmentation and the iscrowd of the tie-break:
\* (1) crowd-flagged with a co-grouped mask: the mask's run-length encoding,
\* iscrowd 1; (2) otherwise with a co-grouped polygon (a crowd-flagged box
\* without a mask included): the polygon's points, iscrowd 0; (3) otherwise
\* the box's own rectangle, iscrowd 0.
SegmentationTieBreak ==
    (Converted /\ ds.conv = "instances") =>
        /\ Len(cv.annotations) = Len(Sources("instances"))
        /\ \A k \in 1..Len(cv.annotations) :
              LET src == Sources("instances")[k]
                  want == TieBreak(src.item, src.ann)
              IN  /\ cv.annotations[k].segmentation = want.segmentation
                  /\ cv.annotations[k].iscrowd = want.iscrowd

\* The same for the boxes that are not crowd-flagged with a polygon and no
\* mask in their group (the case in which the code departs from C5).
SegmentationTieBreakElsewhere ==
    (Converted /\ ds.conv = "instances") =>
        \A k \in 1..Len(cv.annotations) :
            LET src == Sources("instances")[k]
                want == TieBreak(src.item, src.ann)
            IN  (want.rule = 2 /\ src.ann.is_crowd)
                \/ /\ cv.annotations[k].segmentation = want.segmentation
                   /\ cv.annotations[k].iscrowd = want.iscrowd

\* Twice the area the shoelace formula gives the polygon x1, y1, ..., xn, yn.
RECURSIVE ShoelaceSum(_, _)
ShoelaceSum(points, i) ==
    LET n == Len(points) \div 2
        j == IF i = n THEN 1 ELSE i + 1
    IN  IF i > n THEN 0
        ELSE points[2 * i - 1] * points[2 * j] - points[2 * j - 1] * points[2 * i]
                 + ShoelaceSum(points, i + 1)

ShoelaceTwice(points) ==
    IF ShoelaceSum(points, 1) < 0 THEN 0 - ShoelaceSum(points, 1)
    ELSE ShoelaceSum(points, 1)

\* C13: a box whose segmentation is taken from a co-grouped polygon is
\* written with the area of that polygon (shoelace formula over its points);
\* a box written with its own rectangle has the area width x height.
AreaUnderRuleTwo ==
    (Converted /\ ds.conv = "instances") =>
        \A k \in 1..Len(cv.annotations) :
            LET src == Sources("instances")[k]
                rec == cv.annotations[k]
                own == PolygonSegmentation(<<GetPolygon(src.ann)>>)
            IN  /\ (rec.segmentation.kind = "polygons" /\ rec.segmentation # own) =>
                       2 * rec.area = ShoelaceTwice(rec.segmentation.polygons[1])
                /\ rec.segmentation = own => rec.area = src.ann.w * src.ann.h

\* The source ids of the model: none, 0, 1 .. MaxId.
SourceIds == {None} \cup {Some(n) : n \in 0..MaxId}

\* Source annotations carry pairwise distinct ids, when they carry one.
DistinctIds(ids) ==
    \A j, k \in 1..Len(ids) : (j # k /\ ids[j] # None) => ids[j] # ids[k]

\* An annotation of the type the converter handles, with the given id.
Handled(conv, id) ==
    CASE conv = "instances" -> BboxObject(id, Some(0), None, FALSE)
      [] conv = "captions" -> CaptionObject(id, "text")
      [] conv = "person_keypoints" -> PointsObject(id, Some(0), None, <<"visible">>)
      [] conv = "labels" -> LabelObject(id, Some(0))

IdsInit ==
    /\ \E conv \in Converters :
       \E ids \in {q \in SeqsUpTo(SourceIds, MaxAnns) : DistinctIds(q)} :
       \E items \in TwoItems([j \in 1..Len(ids) |-> Handled(conv, ids[j])]) :
           ds = [conv |-> conv, labels |-> TwoLabels, items |-> items]
    /\ cv = NewConverter
    /\ CacheStart /\ XmlIdle

SpecIds == IdsInit /\ [][CocoNext]_vars

\* The ids the source annotations of the written records carry.
SourceIdOf(k) == Sources(ds.conv)[k].ann.id

\* The largest source id seen, 0 when there is none.
MaxSourceId ==
    Max({0} \cup {SourceIdOf(k)[1] : k \in {j \in 1..Len(cv.annotations) : SourceIdOf(j) # None}})

\* C6: after write() the ids of the records are pairwise distinct; a record
\* whose source carries an id keeps it; the others receive consecutive ids in
\* emission order, from 1 when no source id was seen and from above the
\* largest source id otherwise.
AnnotationIdsNeverReused ==
    (cv.pc = "done" /\ cv.written) =>
        LET n == Len(cv.annotations)
            fresh == {k \in 1..n : SourceIdOf(k) = None}
            rank(k) == Cardinality({j \in fresh : j < k})
        IN  /\ \A j, k \in 1..n : j # k => cv.annotations[j].id # cv.annotations[k].id
            /\ \A k \in 1..n : SourceIdOf(k) # None => cv.annotations[k].id = SourceIdOf(k)
            /\ \A k \in fresh : cv.annotations[k].id = Some(MaxSourceId + 1 + rank(k))

VisibilityNames == {"absent", "hidden", "visible"}

\* The inputs of the keypoints converter: one points annotation with any
\* visibility sequence, among boxes and points annotations with and without
\* a group.
KpUniverse ==
    {BboxObject(None, Some(l), g, FALSE) : l \in {0, 1}, g \in {None, Some(1)}}
        \cup {PointsObject(None, Some(0), g, <<"visible", "hidden">>) : g \in {None, Some(1)}}

KeypointsInit ==
    /\ \E visibility \in SeqsUpTo(VisibilityNames, MaxPoints) \ {<<>>} :
       \E g \in {None, Some(1)} :
       \E rest \in SeqsUpTo(KpUniverse, MaxAnns - 1) :
       \E anns \in {<<PointsObject(None, Some(0), g, visibility)>> \o rest,
                    rest \o <<PointsObject(None, Some(0), g, visibility)>>} :
       \E items \in OneItem(anns) :
           ds = [conv |-> "person_keypoints", labels |-> TwoLabels, items |-> items]
    /\ cv = NewConverter
    /\ CacheStart /\ XmlIdle

SpecKeypoints == KeypointsInit /\ [][CocoNext]_vars

\* The visibility codes of the interchange format.
VisibilityCode(v) ==
    CASE v = "absent" -> 0 [] v = "hidden" -> 1 [] v = "visible" -> 2

\* C7: a points annotation with n points is written as a flat keypoints
\* array of length 3n, the i-th triple being (x_i, y_i, code_i) with code 0
\* for absent, 1 for hidden and 2 for visible, and num_keypoints is the
\* number of points with code 2.
KeypointsEncoding ==
    (Converted /\ ds.conv = "person_keypoints") =>
        /\ Len(cv.annotations) = Len(Sources("person_keypoints"))
        /\ \A k \in 1..Len(cv.annotations) :
              LET ann == Sources("person_keypoints")[k].ann
                  n == Len(ann.visibility)
                  kp == cv.annotations[k].keypoints
              IN  /\ Len(ann.points) = 2 * n
                  /\ Len(kp) = 3 * n
                  /\ \A i \in 1..n :
                        /\ kp[3 * i - 2] = ann.points[2 * i - 1]
                        /\ kp[3 * i - 1] = ann.points[2 * i]
                        /\ kp[3 * i] = VisibilityCode(ann.visibility[i])
                  /\ cv.annotations[k].num_keypoints =
                        Cardinality({i \in 1..n : kp[3 * i] = 2})

\* C7, witness: visibility [visible, hidden, absent] was written with the
\* codes 2, 1, 0 in an array of length 9 and num_keypoints = 1.
KeypointsExampleWritten ==
    /\ cv.pc = "done" /\ ds.conv = "person_keypoints"
    /\ \E k \in 1..Len(cv.annotations) :
          /\ Sources("person_keypoints")[k].ann.visibility = <<"visible", "hidden", "absent">>
          /\ Len(cv.annotations[k].keypoints) = 9
          /\ cv.annotations[k].keypoints[3] = 2
          /\ cv.annotations[k].keypoints[6] = 1
          /\ cv.annotations[k].keypoints[9] = 0
          /\ cv.annotations[k].num_keypoints = 1

\* C12: the bbox, area and segmentation of a points annotation come from the
\* first box of the item with the same label and the same, non-null, group;
\* when there is none, and whenever the points annotation has no group, they
\* come from the box spanned by the extrema of its own points.
KeypointsBoundingBox ==
    (Converted /\ ds.conv = "person_keypoints") =>
        \A k \in 1..Len(cv.annotations) :
            LET src == Sources("person_keypoints")[k]
                anns == src.item.annotations
                boxes == {i \in 1..Len(anns) :
                             /\ anns[i].type = "bbox"
                             /\ src.ann.group # None
                             /\ anns[i].group = src.ann.group
                             /\ anns[i].label = src.ann.label}
                want == IF boxes = {} THEN PointsGetBbox(src.ann.points)
                        ELSE anns[Min(boxes)]
            IN  /\ cv.annotations[k].bbox = GetBbox(want)
                /\ cv.annotations[k].area = BboxArea(want)
                /\ cv.annotations[k].segmentation = GetPolygon(want)

\* The same for the points annotations that have a group: the code departs
\* from C12 for those without a group only.
KeypointsBoundingBoxGrouped ==
    (Converted /\ ds.conv = "person_keypoints") =>
        \A k \in 1..Len(cv.annotations) :
            LET src == Sources("person_keypoints")[k]
                anns == src.item.annotations
                boxes == {i \in 1..Len(anns) :
                             /\ anns[i].type = "bbox"
                             /\ anns[i].group = src.ann.group
                             /\ anns[i].label = src.ann.label}
                want == IF boxes = {} THEN PointsGetBbox(src.ann.points)
                        ELSE anns[Min(boxes)]
            IN  src.ann.group # None =>
                    /\ cv.annotations[k].bbox = GetBbox(want)
                    /\ cv.annotations[k].area = BboxArea(want)
                    /\ cv.annotations[k].segmentation = GetPolygon(want)

LabelNames == {"cat", "dog", "bird"}

\* Label sequences of a task: names are unique.
LabelSeqs ==
    {q \in SeqsUpTo(LabelNames, MaxLabels) : \A j, k \in 1..Len(q) : j # k => q[j] # q[k]}

\* The label references of annotations of a task with n labels.
LabelRefs(n) == {None} \cup {Some(k) : k \in 0..(n - 1)}

Labeled(conv, label) ==
    IF conv = "instances" THEN BboxObject(None, label, None, FALSE)
    ELSE LabelObject(None, label)

CategoriesInit ==
    /\ \E conv \in {"instances", "labels"} :
       \E labels \in {None} \cup {Some(q) : q \in LabelSeqs} :
       \E refs \in SeqsUpTo(LabelRefs(IF labels = None THEN 0 ELSE Len(labels[1])), MaxAnns) :
       \E items \in OneItem([j \in 1..Len(refs) |-> Labeled(conv, refs[j])]) :
           ds = [conv |-> conv, labels |-> labels, items |-> items]
    /\ cv = NewConverter
    /\ CacheStart /\ XmlIdle

SpecCategories == CategoriesInit /\ [][CocoNext]_vars

\* C8: for the label sequence L[0..n-1] the instances and labels converters
\* emit n categories, the k-th with id k+1 and name L[k], and every record
\* whose source label index is k carries category_id k+1, the id of the
\* category named L[k].
CategoryNumbering ==
    (cv.pc # "categories" /\ ds.conv \in {"instances", "labels"} /\ ds.labels # None) =>
        LET L == ds.labels[1]
        IN  /\ Len(cv.categories) = Len(L)
            /\ \A k \in 1..Len(L) :
                  cv.categories[k].id = k /\ cv.categories[k].name = L[k]
            /\ Converted =>
                  \A j \in 1..Len(cv.annotations) :
                      LET label == Sources(ds.conv)[j].ann.label
                      IN  label # None =>
                              /\ cv.annotations[j].category_id = label[1] + 1
                              /\ \E c \in 1..Len(cv.categories) :
                                    /\ cv.categories[c].id = cv.annotations[j].category_id
                                    /\ cv.categories[c].name = L[label[1] + 1]

\* C8, witness: labels ["cat", "dog"] were written as categories 1 "cat" and
\* 2 "dog", with a record of label index 1 in category 2.
CatDogWritten ==
    /\ cv.pc = "done" /\ cv.written
    /\ ds.labels = Some(<<"cat", "dog">>)
    /\ cv.categories[1].id = 1 /\ cv.categories[1].name = "cat"
    /\ cv.categories[2].id = 2 /\ cv.categories[2].name = "dog"
    /\ \E j \in 1..Len(cv.annotations) :
          /\ Sources(ds.conv)[j].ann.label = Some(1)
          /\ cv.annotations[j].category_id = 2

(***************************************************************************)
(* CVAT XML parser                                                         *)
(***************************************************************************)

\* Bound of the model: the task and image elements of a document.
MaxElems == 2

\* The numerals of the model and the numbers int() and float() read in them.
Numbers ==
    ("0" :> 0) @@ ("1" :> 1) @@ ("2" :> 2) @@ ("3" :> 3) @@ ("4" :> 4)
        @@ ("7" :> 7) @@ ("480" :> 480) @@ ("640" :> 640)

\* int(text) for an argument that may be missing: None when it raises.
ParseInt(text) ==
    IF text = None THEN None
    ELSE IF text[1] \in DOMAIN Numbers THEN Some(Numbers[text[1]])
    ELSE None

\* str.lower() on the texts of the model.
Lower(text) ==
    CASE text \in {"True", "TRUE", "true"} -> "true"
      [] text \in {"False", "false"} -> "false"
      [] OTHER -> text

\* AttributeEnum and AnnotationEnum
AttributeEnum == {"checkbox", "text", "radio", "number", "select"}
AnnotationEnum == {"polygon", "polyline", "points", "box"}

\* str.split(sep) on a text given as its sequence of tokens.
RECURSIVE Split(_, _)
Split(tokens, sep) ==
    LET at == {i \in 1..Len(tokens) : tokens[i] = sep}
    IN  IF at = {} THEN <<tokens>>
        ELSE <<SubSeq(tokens, 1, Min(at) - 1)>>
                 \o Split(SubSeq(tokens, Min(at) + 1, Len(tokens)), sep)

\* np.array([coord.split(',') for coord in points.split(';')], dtype=np.float):
\* every piece must be a numeral and the rows must be as long as each other;
\* None when it raises.
ParsePoints(tokens) ==
    LET rows == [i \in 1..Len(Split(tokens, ";")) |-> Split(Split(tokens, ";")[i], ",")]
        numeric(piece) == Len(piece) = 1 /\ piece[1] \in DOMAIN Numbers
    IN  IF /\ \A i \in 1..Len(rows) : \A j \in 1..Len(rows[i]) : numeric(rows[i][j])
           /\ \A i \in 1..Len(rows) : Len(rows[i]) = Len(rows[1])
        THEN Some([i \in 1..Len(rows) |->
                      [j \in 1..Len(rows[i]) |-> Numbers[rows[i][j][1]]]])
        ELSE None

\* Attribute.__init__, from the children of an <attribute> element.
AttributeOf(tag) ==
    IF tag.name = None \/ tag.input_type = None \/ tag.values = None THEN None
    ELSE IF tag.input_type[1] \notin AttributeEnum THEN None
    ELSE Some([name |-> tag.name[1], input_type |-> tag.input_type[1],
               values |-> tag.values[1]])

\* The elements of a sequence of optional values, or None when one is None.
AllOf(options) ==
    IF \E i \in 1..Len(options) : options[i] = None THEN None
    ELSE Some([i \in 1..Len(options) |-> options[i][1]])

\* Label(name=label_tag.find('name').text) and its attributes, lines 199-207.
LabelOf(tag) ==
    LET attributes == AllOf([i \in 1..Len(tag.attributes) |-> AttributeOf(tag.attributes[i])])
    IN  IF tag.name = None \/ attributes = None THEN None
        ELSE Some([name |-> tag.name[1], attributes |-> attributes[1]])

\* Task.__init__, from the children of a <task> element, and its labels,
\* lines 197-209.
TaskOf(tag) ==
    LET labels == AllOf([i \in 1..Len(tag.labels) |-> LabelOf(tag.labels[i])])
        flipped == IF tag.flipped = None THEN Some(FALSE)
                   ELSE IF Lower(tag.flipped[1]) = "true" THEN Some(TRUE)
                   ELSE IF Lower(tag.flipped[1]) = "false" THEN Some(FALSE)
                   ELSE None
    IN  IF \/ ParseInt(tag.id) = None \/ ParseInt(tag.size) = None
           \/ ParseInt(tag.overlap) = None
           \/ flipped = None \/ labels = None
        THEN None
        ELSE Some([id |-> ParseInt(tag.id)[1], size |-> ParseInt(tag.size)[1],
                   overlap |-> ParseInt(tag.overlap)[1], flipped |-> flipped[1],
                   labels |-> labels[1]])

\* Annotation.__init__, from a child element of an <image>, lines 217-225.
ParseAnnotation(tag) ==
    IF tag.tag \notin AnnotationEnum \/ tag.label = None THEN None
    ELSE LET points ==
                 IF tag.points # None /\ tag.points[1] # <<>>
                 THEN ParsePoints(tag.points[1])
                 ELSE IF tag.tag = "box" /\ tag.box # None
                 THEN IF \A j \in 1..4 : tag.box[1][j] \in DOMAIN Numbers
                      THEN Some(<<<<Numbers[tag.box[1][1]], Numbers[tag.box[1][2]]>>,
                                  <<Numbers[tag.box[1][3]], Numbers[tag.box[1][4]]>>>>)
                      ELSE None
                 ELSE Some(<<>>)
         IN  IF points = None THEN None
             ELSE Some([type |-> tag.tag, label |-> tag.label[1],
                        points |-> points[1], attributes |-> tag.attributes])

\* Image.__init__, from the attributes of an <image> element, and its
\* annotations, lines 214-227.
ImageOf(tag) ==
    LET annotations == AllOf([i \in 1..Len(tag.children) |-> ParseAnnotation(tag.children[i])])
    IN  IF \/ ParseInt(tag.id) = None \/ ParseInt(tag.width) = None
           \/ ParseInt(tag.height) = None \/ annotations = None
        THEN None
        ELSE Some([id |-> ParseInt(tag.id)[1], width |-> ParseInt(tag.width)[1],
                   height |-> ParseInt(tag.height)[1], annotations |-> annotations[1]])

\* A reading of the version that accepts a document without one.
VersionTextOrEmpty(document) ==
    IF document.version = None THEN Some("") ELSE document.version

\* root.find('version').text, line 189: None when find returns None and
\* .text raises.
VersionText(document) ==
    IF document.version = None THEN None ELSE Some(document.version[1])

\* The exception leaves CVAT_XML.__init__: no object is made.
Raised == [pc |-> "raised"]

\* parse_xml, lines 188-189
ParseXml ==
    /\ px.pc = "start"
    /\ px' = IF VersionText(doc) = None THEN Raised
             ELSE [pc |-> "metadata", cvat_xml_version |-> VersionText(doc)[1],
                   tasks |-> <<>>, images |-> <<>>]
    /\ UNCHANGED <<doc, notXml>>

\* _parse_metadata
ParseMetadata ==
    /\ px.pc = "metadata"
    /\ LET tasks == AllOf([i \in 1..Len(doc.tasks) |-> TaskOf(doc.tasks[i])])
       IN  px' = IF tasks = None THEN Raised
                 ELSE [px EXCEPT !.pc = "images", !.tasks = tasks[1]]
    /\ UNCHANGED <<doc, notXml>>

\* _parse_images
ParseImages ==
    /\ px.pc = "images"
    /\ LET images == AllOf([i \in 1..Len(doc.images) |-> ImageOf(doc.images[i])])
       IN  px' = IF images = None THEN Raised
                 ELSE [px EXCEPT !.pc = "done", !.images = images[1]]
    /\ UNCHANGED <<doc, notXml>>

XmlNext == ParseXml \/ ParseMetadata \/ ParseImages

\* The <task> elements of the model: a sound one and one-defect variants.
GoodAttribute == [name |-> Some("color"), input_type |-> Some("text"), values |-> Some("red")]

GoodLabel == [name |-> Some("car"), attributes |-> <<>>]

GoodTask ==
    [id |-> Some("7"), size |-> Some("2"), overlap |-> Some("0"),
     flipped |-> None, labels |-> <<>>]

TaskTags ==
    {GoodTask,
     [GoodTask EXCEPT !.id = None],
     [GoodTask EXCEPT !.size = Some("two")],
     [GoodTask EXCEPT !.flipped = Some("True")],
     [GoodTask EXCEPT !.flipped = Some("yes")],
     [GoodTask EXCEPT !.labels = <<GoodLabel>>],
     [GoodTask EXCEPT !.labels = <<[GoodLabel EXCEPT !.name = None]>>],
     [GoodTask EXCEPT !.labels = <<[GoodLabel EXCEPT !.attributes = <<GoodAttribute>>]>>],
     [GoodTask EXCEPT !.labels =
         <<[GoodLabel EXCEPT !.attributes =
               <<[GoodAttribute EXCEPT !.input_type = Some("slider")]>>]>>]}

\* The <image> elements of the model, likewise.
GoodBox ==
    [tag |-> "box", label |-> Some("car"), points |-> None,
     box |-> Some(<<"1", "2", "3", "4">>), attributes |-> <<>>]

GoodPolygon ==
    [tag |-> "polygon", label |-> Some("car"),
     points |-> Some(<<"1", ",", "2", ";", "3", ",", "4", ";", "0", ",", "7">>),
     box |-> None, attributes |-> <<>>]

GoodImage ==
    [id |-> Some("0"), width |-> Some("640"), height |-> Some("480"), children |-> <<>>]

ImageTags ==
    {GoodImage,
     [GoodImage EXCEPT !.id = None],
     [GoodImage EXCEPT !.width = Some("wide")],
     [GoodImage EXCEPT !.children = <<GoodBox>>],
     [GoodImage EXCEPT !.children = <<GoodPolygon, GoodBox>>],
     [GoodImage EXCEPT !.children = <<[GoodBox EXCEPT !.attributes = <<<<"color", "red">>>>]>>],
     [GoodImage EXCEPT !.children = <<[GoodBox EXCEPT !.tag = "cuboid"]>>],
     [GoodImage EXCEPT !.children = <<[GoodBox EXCEPT !.label = None]>>],
     [GoodImage EXCEPT !.children = <<[GoodBox EXCEPT !.box = Some(<<"1", "2", "x", "4">>)]>>],
     [GoodImage EXCEPT !.children =
         <<[GoodPolygon EXCEPT !.points = Some(<<"1", ",", "2", ";", "3">>)]>>],
     [GoodImage EXCEPT !.children =
         <<[GoodPolygon EXCEPT !.points = Some(<<"1", ",", "a">>)]>>]}

\* A document has a version or none and at most MaxElems task and image
\* elements; nothing is parsed yet.
XmlInit ==
    /\ \E nt \in 0..MaxElems : \E ni \in 0..(MaxElems - nt) :
          doc \in [version : {None, Some("1.1")},
                   tasks : [1..nt -> TaskTags],
                   images : [1..ni -> ImageTags]]
    /\ px = [pc |-> "start"]
    /\ CacheStart /\ CocoIdle

SpecXml == XmlInit /\ [][XmlNext]_vars

\* The values of a document are well formed: numbers are numerals, flipped is
\* true or false, labels are named, attribute types and annotation kinds are
\* known, every annotation has a label, point lists are lists of pairs.
WellFormedPoints(tokens) ==
    /\ Len(tokens) % 4 = 3
    /\ \A j \in 1..Len(tokens) :
          CASE j % 4 = 1 -> tokens[j] \in DOMAIN Numbers
            [] j % 4 = 2 -> tokens[j] = ","
            [] j % 4 = 3 -> tokens[j] \in DOMAIN Numbers
            [] j % 4 = 0 -> tokens[j] = ";"

WellFormedTask(t) ==
    /\ \A f \in {t.id, t.size, t.overlap} : f # None /\ f[1] \in DOMAIN Numbers
    /\ t.flipped # None => t.flipped[1] \in {"true", "false", "True", "False"}
    /\ \A i \in 1..Len(t.labels) :
          /\ t.labels[i].name # None
          /\ \A j \in 1..Len(t.labels[i].attributes) :
                LET a == t.labels[i].attributes[j]
                IN  /\ a.name # None /\ a.values # None
                    /\ a.input_type # None /\ a.input_type[1] \in AttributeEnum

WellFormedImage(g) ==
    /\ \A f \in {g.id, g.width, g.height} : f # None /\ f[1] \in DOMAIN Numbers
    /\ \A i \in 1..Len(g.children) :
          LET c == g.children[i]
          IN  /\ c.tag \in AnnotationEnum
              /\ c.label # None
              /\ c.points # None => WellFormedPoints(c.points[1])
              /\ c.box # None => \A j \in 1..4 : c.box[1][j] \in DOMAIN Numbers

WellFormed(d) ==
    /\ \A i \in 1..Len(d.tasks) : WellFormedTask(d.tasks[i])
    /\ \A i \in 1..Len(d.images) : WellFormedImage(d.images[i])

\* C9 as stated: parsing fails, and yields no model, whenever 'version',
\* 'task' or 'image' is missing; a document with none of them missing and
\* well-formed values parses.
ParserContractAsStated ==
    /\ (doc.version = None \/ doc.tasks = <<>> \/ doc.images = <<>>) => px.pc # "done"
    /\ px.pc = "raised" => DOMAIN px = {"pc"}
    /\ (doc.version # None /\ doc.tasks # <<>> /\ doc.images # <<>> /\ WellFormed(doc))
           => px.pc # "raised"

\* C9 amended: parsing fails, and yields no model, whenever 'version' is
\* missing; a document with a version and well-formed values parses, also
\* without any 'task' or 'image' element, to a model with as many tasks and
\* images as the document has.
ParserContractOfTheCode ==
    /\ doc.version = None => px.pc \in {"start", "raised"}
    /\ px.pc = "raised" => DOMAIN px = {"pc"}
    /\ (doc.version # None /\ WellFormed(doc)) => px.pc # "raised"
    /\ px.pc = "done" =>
           /\ Len(px.tasks) = Len(doc.tasks)
           /\ Len(px.images) = Len(doc.images)

\* C9, witness: a document with a version and neither task nor image was
\* parsed, to a model without tasks and images.
ParsedWithoutTaskAndImage ==
    /\ px.pc = "done"
    /\ doc.tasks = <<>> /\ doc.images = <<>>
    /\ px.tasks = <<>> /\ px.images = <<>>

====
